---- MODULE Spec2Model ----
(***************************************************************************)
(* Job lifecycle of the AEGIS v2 pipeline: the producer endpoint           *)
(* run_pipeline (src/app/main.py), the consumer worker_loop and            *)
(* process_pipeline_job (src/worker.py), and the reader get_manifest       *)
(* (src/app/main.py), sharing the Redis list aegis:pipeline:queue and the  *)
(* Postgres tables aegis.manifest_v2_index and aegis.manifest_v2_modules.  *)
(*                                                                         *)
(* Granularity: one action per awaited statement.  Every conn.execute runs *)
(* outside any transaction block, so each statement commits on its own; a  *)
(* statement that raises has no effect on the tables, and handing a        *)
(* connection back to the pool does not raise.  A run_pipeline request     *)
(* whose INSERT raises ends with no effect and is left out.                *)
(*                                                                         *)
(* Specifications: Spec (producer and two worker loops), SpecReader (with  *)
(* get_manifest, one worker), SpecForeign (messages of other clients on    *)
(* the list), SpecLoop (the worker loop under fair scheduling),            *)
(* SpecTransition (the UPDATE to processing on tables with updated_at),    *)
(* SpecFifo (sequential requests, one worker), SpecCrash (worker           *)
(* processes that die), SpecLive (Spec under fair scheduling).  A brpop    *)
(* that raises only logs worker_error and sleeps, and is left out.         *)
(***************************************************************************)
EXTENDS Integers, Sequences, FiniteSets, TLC

\* ------------------------------------------------------------------ bounds
\* number of run ids uuid4 hands out in a behaviour
MaxRuns == 2

\* messages other clients push on the Redis list in a behaviour
MaxForeign == 2

\* largest value NOW() takes in the specification of the status transition
MaxClock == 4

\* ------------------------------------------------------------- input sets
Tenants == {"T1"}
Stores == {"S1", "S2"}
Workers == {"w1", "w2"}
\* reasons a configured hard gate of phase 2 fails with (spec 4.3, phase 2)
GateReasons == {"R"}

RunId(i) == "R" \o ToString(i)
RunIds == {RunId(i) : i \in 1..MaxRuns}

\* SQL NULL, and a non-null column value
NULL == {}
Val(b) == {b}

VARIABLES
    manifest_v2_index,    \* table aegis.manifest_v2_index: set of rows
    manifest_v2_modules,  \* table aegis.manifest_v2_modules: set of rows
    queue,                \* Redis list aegis:pipeline:queue, head = left end
    api_redis_client,     \* main.py redis_client is set (REDIS_URL configured)
    uuid_count,           \* number of run ids generated so far
    clock,                \* value NOW() returns
    api_pending,          \* run_pipeline requests between the INSERT and the lpush
    worker,               \* per worker: position in worker_loop and locals
    hard_gates,           \* configured hard gates that fail: their reasons
    log,                  \* structlog events emitted by the worker
    reader,               \* the get_manifest request in flight
    foreign_sent          \* messages other clients have pushed on the list so far

vars == <<manifest_v2_index, manifest_v2_modules, queue, api_redis_client,
          uuid_count, clock, api_pending, worker, hard_gates, log, reader,
          foreign_sent>>

\* ------------------------------------------------------------------- JSON
\* A Python dict is a sequence of <<key, value>> pairs in insertion order;
\* JSON text is the token sequence "{" k1 v1 k2 v2 ... "}".
RECURSIVE Flatten(_)
Flatten(d) ==
    IF d = <<>> THEN <<>>
    ELSE <<d[1][1], d[1][2]>> \o Flatten(Tail(d))

json_dumps(d) == <<"{">> \o Flatten(d) \o <<"}">>

\* json.loads raises JSONDecodeError on text that is not a JSON document
Decodable(s) ==
    /\ Len(s) >= 2
    /\ s[1] = "{"
    /\ s[Len(s)] = "}"
    /\ (Len(s) - 2) % 2 = 0

json_loads(s) == [i \in 1..((Len(s) - 2) \div 2) |-> <<s[2 * i], s[2 * i + 1]>>]

\* k in d, and d[k]
HasKey(d, k) == \E i \in 1..Len(d) : d[i][1] = k
Get(d, k) == d[CHOOSE i \in 1..Len(d) : d[i][1] = k][2]

\* ------------------------------------------------------------------ Redis
\* mutant: RPUSH in place of LPUSH
lpush_AtRight(q, m) == q \o <<m>>

\* LPUSH adds at the left end, BRPOP removes from the right end
lpush(q, m) == <<m>> \o q
brpop_value(q) == q[Len(q)]
\* mutant: the message read stays on the list
brpop_rest_KeepsMessage(q) == q
brpop_rest(q) == SubSeq(q, 1, Len(q) - 1)

\* --------------------------------------------------------------- Postgres
\* mutant: SET ..., updated_at = NOW(), created_at = NOW()
Touch_AlsoCreatedAt(row, now) ==
    IF "updated_at" \in DOMAIN row
    THEN [row EXCEPT !.updated_at = Val(now), !.created_at = now]
    ELSE row

\* updated_at = NOW().  No statement of the repository reads updated_at, so
\* the lifecycle specifications keep Run Index rows without that column;
\* SpecTransition keeps it.
Touch(row, now) ==
    IF "updated_at" \in DOMAIN row THEN [row EXCEPT !.updated_at = Val(now)] ELSE row

\* mutant: the UPDATE lacks its WHERE clause
UpdateStatus_NoWhere(tbl, r, st, now) ==
    {Touch([row EXCEPT !.status = st], now) : row \in tbl}

\* mutant: the handler's UPDATE also writes deploy_ready = false
UpdateStatus_FailedSetsDeployReady(tbl, r, st, now) ==
    {IF row.run_id = r
     THEN Touch([row EXCEPT !.status = st,
                            !.deploy_ready = IF st = "failed" THEN Val(FALSE) ELSE @], now)
     ELSE row : row \in tbl}

\* UPDATE aegis.manifest_v2_index SET status = st, updated_at = NOW() WHERE run_id = r
UpdateStatus(tbl, r, st, now) ==
    {IF row.run_id = r THEN Touch([row EXCEPT !.status = st], now)
     ELSE row : row \in tbl}

\* UPDATE ... SET status = 'completed', deploy_ready = dr, updated_at = NOW() WHERE run_id = r
UpdateCompletedRows(tbl, r, dr, now) ==
    {IF row.run_id = r
     THEN Touch([row EXCEPT !.status = "completed", !.deploy_ready = Val(dr)], now)
     ELSE row : row \in tbl}

\* mutant: the deployment row is not written
InsertModule_SkipsDeployment(tbl, r, name, data) ==
    IF name = "deployment" THEN tbl
    ELSE tbl \cup {[run_id |-> r, module_name |-> name, module_data |-> data]}

\* INSERT INTO aegis.manifest_v2_modules (run_id, module_name, module_data)
InsertModule(tbl, r, name, data) ==
    tbl \cup {[run_id |-> r, module_name |-> name, module_data |-> data]}

\* mutant: store id and tenant id change places in the f-string
DeployPath_SwapsIds(tenant_id, store_id, run_id) ==
    "s3://aegis/" \o store_id \o "/" \o tenant_id \o "/" \o run_id

\* f"s3://aegis/{tenant_id}/{store_id}/{run_id}"
DeployPath(tenant_id, store_id, run_id) ==
    "s3://aegis/" \o tenant_id \o "/" \o store_id \o "/" \o run_id

\* ----------------------------------------------------------------- worker
Idle == [pc |-> "brpop", job_json |-> <<>>, run_id |-> "", tenant_id |-> "",
         store_id |-> "", deploy_ready |-> FALSE, reasons |-> <<>>, e |-> ""]

Event(ev, r, detail) == [event |-> ev, run_id |-> r, detail |-> detail]

\* no get_manifest request in flight
NoRequest == [pc |-> "idle", tenant_id |-> "", store_id |-> "", row |-> <<>>]

Init ==
    /\ manifest_v2_index = {}
    /\ manifest_v2_modules = {}
    /\ queue = <<>>
    /\ api_redis_client \in BOOLEAN
    /\ uuid_count = 0
    /\ clock = 1
    /\ api_pending = {}
    /\ worker = [w \in Workers |-> Idle]
    /\ hard_gates \in SUBSET GateReasons
    /\ log = {}
    /\ reader = NoRequest
    /\ foreign_sent = 0

\* ------------------------------------------------------ run_pipeline (API)
\* the Job Message run_pipeline builds: json.dumps({...})
JobMessage(req) ==
    json_dumps(<< <<"run_id", req.run_id>>,
                  <<"tenant_id", req.tenant_id>>,
                  <<"store_id", req.store_id>>,
                  <<"product_data", "P">> >>)

\* mutant: the lpush comes first, the INSERT is still to be done
RunPipelineInsert_EnqueueFirst(t, s) ==
    /\ uuid_count < MaxRuns
    /\ LET req == [run_id |-> RunId(uuid_count + 1), tenant_id |-> t, store_id |-> s] IN
        /\ queue' = lpush(queue, JobMessage(req))
        /\ api_pending' = api_pending \cup {req}
    /\ uuid_count' = uuid_count + 1
    /\ UNCHANGED <<manifest_v2_index, manifest_v2_modules, clock, api_redis_client,
                   worker, hard_gates, reader, foreign_sent, log>>

\* uuid4 and the INSERT of the queued row
RunPipelineInsert(t, s) ==
    /\ uuid_count < MaxRuns
    /\ LET run_id == RunId(uuid_count + 1) IN
        /\ manifest_v2_index' = manifest_v2_index \cup
              {[tenant_id |-> t, store_id |-> s, run_id |-> run_id,
                status |-> "queued", deploy_ready |-> NULL, created_at |-> clock]}
        /\ api_pending' = api_pending \cup
              {[run_id |-> run_id, tenant_id |-> t, store_id |-> s]}
    /\ uuid_count' = uuid_count + 1
    /\ clock' = clock + 1
    /\ UNCHANGED <<manifest_v2_modules, queue, api_redis_client, worker, hard_gates, reader, foreign_sent, log>>

\* if redis_client: lpush(json.dumps({...})), then the response
RunPipelineEnqueue(req) ==
    /\ req \in api_pending
    /\ queue' = IF api_redis_client
                THEN lpush(queue, JobMessage(req))
                ELSE queue
    /\ api_pending' = api_pending \ {req}
    /\ UNCHANGED <<manifest_v2_index, manifest_v2_modules, api_redis_client,
                   uuid_count, clock, worker, hard_gates, reader, foreign_sent, log>>

\* the lpush raises (Redis unreachable): the request fails, the row stays
RunPipelineEnqueueRaise(req) ==
    /\ req \in api_pending
    /\ api_redis_client
    /\ api_pending' = api_pending \ {req}
    /\ UNCHANGED <<manifest_v2_index, manifest_v2_modules, queue, api_redis_client,
                   uuid_count, clock, worker, hard_gates, reader, foreign_sent, log>>

\* ------------------------------------------------------------ worker_loop
\* result = await redis_client.brpop(...) with a message available
Brpop(w) ==
    /\ worker[w].pc = "brpop"
    /\ queue /= <<>>
    /\ worker' = [worker EXCEPT ![w].pc = "loads", ![w].job_json = brpop_value(queue)]
    /\ queue' = brpop_rest(queue)
    /\ UNCHANGED <<manifest_v2_index, manifest_v2_modules, api_redis_client,
                   uuid_count, clock, api_pending, hard_gates, reader, foreign_sent, log>>

\* job_data = json.loads(job_json); process_pipeline_job reads its three keys
\* before the try block, so a bad message raises into worker_loop's except
Loads(w) ==
    /\ worker[w].pc = "loads"
    /\ LET s == worker[w].job_json
           ok == /\ Decodable(s)
                 /\ \A k \in {"run_id", "tenant_id", "store_id"} : HasKey(json_loads(s), k)
           job_data == json_loads(s)
       IN IF ok
          THEN /\ worker' = [worker EXCEPT ![w].pc = "update_processing",
                                           ![w].run_id = Get(job_data, "run_id"),
                                           ![w].tenant_id = Get(job_data, "tenant_id"),
                                           ![w].store_id = Get(job_data, "store_id")]
               /\ log' = log \cup {Event("pipeline_start", Get(job_data, "run_id"), "")}
          ELSE /\ worker' = [worker EXCEPT ![w] = [Idle EXCEPT !.pc = "backoff"]]
               /\ log' = log \cup {Event("worker_error", "", "loads")}
    /\ UNCHANGED <<manifest_v2_index, manifest_v2_modules, queue, api_redis_client,
                   uuid_count, clock, api_pending, hard_gates, reader, foreign_sent>>

\* --------------------------------------------------- process_pipeline_job
\* statements of the try block that talk to Postgres, and the simulated
\* phases standing for the collaborator calls of phases 1-4
DbSteps == {"update_processing", "insert_audit", "insert_decision",
            "insert_deployment", "update_completed"}
PhaseSteps == {"phase_1", "phase_2", "phase_3", "phase_4"}

\* UPDATE ... SET status = 'processing', then logger.info("phase_1_prefetch")
UpdateProcessing(w) ==
    /\ worker[w].pc = "update_processing"
    /\ manifest_v2_index' = UpdateStatus(manifest_v2_index, worker[w].run_id, "processing", clock)
    /\ worker' = [worker EXCEPT ![w].pc = "phase_1"]
    /\ log' = log \cup {Event("phase_1_prefetch", worker[w].run_id, "")}
    /\ UNCHANGED <<manifest_v2_modules, queue, api_redis_client, uuid_count, clock,
                   api_pending, hard_gates, reader, foreign_sent>>

\* mutant: phase 1 is followed by phase 3
Phase1_SkipsHardBlock(w) ==
    /\ worker[w].pc = "phase_1"
    /\ worker' = [worker EXCEPT ![w].pc = "phase_3"]
    /\ log' = log \cup {Event("phase_3_assets", worker[w].run_id, "")}
    /\ UNCHANGED <<manifest_v2_index, manifest_v2_modules, queue, api_redis_client,
                   uuid_count, clock, api_pending, hard_gates, reader, foreign_sent>>

\* PHASE 1: await asyncio.sleep(2), then logger.info("phase_2_hard_block")
Phase1(w) ==
    /\ worker[w].pc = "phase_1"
    /\ worker' = [worker EXCEPT ![w].pc = "phase_2"]
    /\ log' = log \cup {Event("phase_2_hard_block", worker[w].run_id, "")}
    /\ UNCHANGED <<manifest_v2_index, manifest_v2_modules, queue, api_redis_client,
                   uuid_count, clock, api_pending, hard_gates, reader, foreign_sent>>

\* mutant: deploy_ready starts out False
HardGateVerdict_DefaultFalse(failed) == [deploy_ready |-> FALSE, reasons |-> <<>>]

\* the verdict the code computes from the gates that failed: none is consulted
HardGateVerdict(failed) == [deploy_ready |-> TRUE, reasons |-> <<>>]

\* PHASE 2: await asyncio.sleep(3); deploy_ready = True; reasons = [];
\* logger.info("phase_3_assets")
Phase2(w) ==
    /\ worker[w].pc = "phase_2"
    /\ worker' = [worker EXCEPT ![w].pc = "phase_3",
                                ![w].deploy_ready = HardGateVerdict(hard_gates).deploy_ready,
                                ![w].reasons = HardGateVerdict(hard_gates).reasons]
    /\ log' = log \cup {Event("phase_3_assets", worker[w].run_id, "")}
    /\ UNCHANGED <<manifest_v2_index, manifest_v2_modules, queue, api_redis_client,
                   uuid_count, clock, api_pending, hard_gates, reader, foreign_sent>>

\* PHASE 3: await asyncio.sleep(5), then logger.info("phase_4_soft_checks")
Phase3(w) ==
    /\ worker[w].pc = "phase_3"
    /\ worker' = [worker EXCEPT ![w].pc = "phase_4"]
    /\ log' = log \cup {Event("phase_4_soft_checks", worker[w].run_id, "")}
    /\ UNCHANGED <<manifest_v2_index, manifest_v2_modules, queue, api_redis_client,
                   uuid_count, clock, api_pending, hard_gates, reader, foreign_sent>>

\* PHASE 4: await asyncio.sleep(2), then logger.info("phase_5_manifest")
Phase4(w) ==
    /\ worker[w].pc = "phase_4"
    /\ worker' = [worker EXCEPT ![w].pc = "insert_audit"]
    /\ log' = log \cup {Event("phase_5_manifest", worker[w].run_id, "")}
    /\ UNCHANGED <<manifest_v2_index, manifest_v2_modules, queue, api_redis_client,
                   uuid_count, clock, api_pending, hard_gates, reader, foreign_sent>>

AuditData == json_dumps(<< <<"checks_passed", 12>>, <<"checks_failed", 0>> >>)
DecisionData(deploy_ready, reasons) ==
    json_dumps(<< <<"deploy_ready", deploy_ready>>, <<"reasons", reasons>> >>)
DeploymentData(tenant_id, store_id, run_id) ==
    json_dumps(<< <<"ready_to_deploy_path", DeployPath(tenant_id, store_id, run_id)>> >>)

\* INSERT ... VALUES ($1, 'audit', $2)
InsertAudit(w) ==
    /\ worker[w].pc = "insert_audit"
    /\ manifest_v2_modules' =
          InsertModule(manifest_v2_modules, worker[w].run_id, "audit", AuditData)
    /\ worker' = [worker EXCEPT ![w].pc = "insert_decision"]
    /\ UNCHANGED <<manifest_v2_index, queue, api_redis_client, uuid_count, clock,
                   api_pending, hard_gates, reader, foreign_sent, log>>

\* INSERT ... VALUES ($1, 'decision', $2)
InsertDecision(w) ==
    /\ worker[w].pc = "insert_decision"
    /\ manifest_v2_modules' =
          InsertModule(manifest_v2_modules, worker[w].run_id, "decision",
                       DecisionData(worker[w].deploy_ready, worker[w].reasons))
    /\ worker' = [worker EXCEPT ![w].pc = "insert_deployment"]
    /\ UNCHANGED <<manifest_v2_index, queue, api_redis_client, uuid_count, clock,
                   api_pending, hard_gates, reader, foreign_sent, log>>

\* INSERT ... VALUES ($1, 'deployment', $2)
InsertDeployment(w) ==
    /\ worker[w].pc = "insert_deployment"
    /\ manifest_v2_modules' =
          InsertModule(manifest_v2_modules, worker[w].run_id, "deployment",
                       DeploymentData(worker[w].tenant_id, worker[w].store_id,
                                      worker[w].run_id))
    /\ worker' = [worker EXCEPT ![w].pc = "update_completed"]
    /\ UNCHANGED <<manifest_v2_index, queue, api_redis_client, uuid_count, clock,
                   api_pending, hard_gates, reader, foreign_sent, log>>

\* UPDATE ... SET status = 'completed', deploy_ready = $2, then
\* logger.info("pipeline_complete") and the return to worker_loop
UpdateCompleted(w) ==
    /\ worker[w].pc = "update_completed"
    /\ manifest_v2_index' =
          UpdateCompletedRows(manifest_v2_index, worker[w].run_id, worker[w].deploy_ready,
                              clock)
    /\ log' = log \cup {Event("pipeline_complete", worker[w].run_id, "")}
    /\ worker' = [worker EXCEPT ![w] = Idle]
    /\ UNCHANGED <<manifest_v2_modules, queue, api_redis_client, uuid_count, clock,
                   api_pending, hard_gates, reader, foreign_sent>>

\* except Exception as e: logger.error("pipeline_failed", error=str(e))
EnterExcept(w) ==
    /\ worker' = [worker EXCEPT ![w].pc = "update_failed", ![w].e = worker[w].pc]
    /\ log' = log \cup {Event("pipeline_failed", worker[w].run_id, worker[w].pc)}
    /\ UNCHANGED <<manifest_v2_index, manifest_v2_modules, queue, api_redis_client,
                   uuid_count, clock, api_pending, hard_gates, reader, foreign_sent>>

\* a Postgres statement of the try block (or the acquire before it) raises
DbRaise(w) ==
    /\ worker[w].pc \in DbSteps
    /\ EnterExcept(w)

\* the collaborator call of a phase raises
PhaseRaise(w) ==
    /\ worker[w].pc \in PhaseSteps
    /\ EnterExcept(w)

\* the handler's UPDATE ... SET status = 'failed', then the return to worker_loop
UpdateFailed(w) ==
    /\ worker[w].pc = "update_failed"
    /\ manifest_v2_index' = UpdateStatus(manifest_v2_index, worker[w].run_id, "failed", clock)
    /\ worker' = [worker EXCEPT ![w] = Idle]
    /\ UNCHANGED <<manifest_v2_modules, queue, api_redis_client, uuid_count, clock,
                   api_pending, hard_gates, reader, foreign_sent, log>>

\* the handler's UPDATE raises: the exception leaves process_pipeline_job and
\* is caught by worker_loop: logger.error("worker_error")
UpdateFailedRaise(w) ==
    /\ worker[w].pc = "update_failed"
    /\ worker' = [worker EXCEPT ![w] = [Idle EXCEPT !.pc = "backoff"]]
    /\ log' = log \cup {Event("worker_error", worker[w].run_id, "update_failed")}
    /\ UNCHANGED <<manifest_v2_index, manifest_v2_modules, queue, api_redis_client,
                   uuid_count, clock, api_pending, hard_gates, reader, foreign_sent>>

\* mutant: worker_loop's except leaves the while loop
Backoff_Exits(w) ==
    /\ worker[w].pc = "backoff"
    /\ worker' = [worker EXCEPT ![w] = [Idle EXCEPT !.pc = "exited"]]
    /\ UNCHANGED <<manifest_v2_index, manifest_v2_modules, queue, api_redis_client,
                   uuid_count, clock, api_pending, hard_gates, reader, foreign_sent, log>>

\* await asyncio.sleep(5) in worker_loop's except
Backoff(w) ==
    /\ worker[w].pc = "backoff"
    /\ worker' = [worker EXCEPT ![w] = Idle]
    /\ UNCHANGED <<manifest_v2_index, manifest_v2_modules, queue, api_redis_client,
                   uuid_count, clock, api_pending, hard_gates, reader, foreign_sent, log>>

Next ==
    \/ \E t \in Tenants, s \in Stores : RunPipelineInsert(t, s)
    \/ \E req \in api_pending : RunPipelineEnqueue(req)
    \/ \E req \in api_pending : RunPipelineEnqueueRaise(req)
    \/ \E w \in Workers : Brpop(w)
    \/ \E w \in Workers : Loads(w)
    \/ \E w \in Workers : UpdateProcessing(w)
    \/ \E w \in Workers : Phase1(w)
    \/ \E w \in Workers : Phase2(w)
    \/ \E w \in Workers : Phase3(w)
    \/ \E w \in Workers : Phase4(w)
    \/ \E w \in Workers : InsertAudit(w)
    \/ \E w \in Workers : InsertDecision(w)
    \/ \E w \in Workers : InsertDeployment(w)
    \/ \E w \in Workers : UpdateCompleted(w)
    \/ \E w \in Workers : DbRaise(w)
    \/ \E w \in Workers : PhaseRaise(w)
    \/ \E w \in Workers : UpdateFailed(w)
    \/ \E w \in Workers : UpdateFailedRaise(w)
    \/ \E w \in Workers : Backoff(w)

Spec == Init /\ [][Next]_vars

\* ------------------------------------------------------------ get_manifest
\* mutant: ORDER BY created_at without DESC
LatestRow_Oldest(tbl, t, s) ==
    LET rows == {row \in tbl : row.tenant_id = t /\ row.store_id = s}
    IN {row \in rows : \A o \in rows : o.created_at >= row.created_at}

\* SELECT ... WHERE tenant_id = $1 AND store_id = $2 ORDER BY created_at DESC
\* LIMIT 1: the rows fetchrow may return (none: fetchrow returns None)
LatestRow(tbl, t, s) ==
    LET rows == {row \in tbl : row.tenant_id = t /\ row.store_id = s}
    IN {row \in rows : \A o \in rows : o.created_at <= row.created_at}

\* row["created_at"].isoformat()
isoformat(ts) == "T" \o ToString(ts)

\* SELECT module_name, module_data ... WHERE run_id = $1, and the dict returned;
\* modules is the dict {module_name: module_data} as a set of pairs
ManifestResponse(row, tbl) ==
    [run_id |-> row.run_id, status |-> row.status, deploy_ready |-> row.deploy_ready,
     created_at |-> isoformat(row.created_at),
     modules |-> {<<m.module_name, m.module_data>> : m \in {x \in tbl : x.run_id = row.run_id}}]

\* row = await conn.fetchrow(...); if not row: raise HTTPException(404)
GetManifestFetchRow(t, s) ==
    /\ reader.pc = "idle"
    /\ IF LatestRow(manifest_v2_index, t, s) = {}
       THEN reader' = [NoRequest EXCEPT !.pc = "not_found", !.tenant_id = t, !.store_id = s]
       ELSE \E row \in LatestRow(manifest_v2_index, t, s) :
               reader' = [pc |-> "fetched", tenant_id |-> t, store_id |-> s, row |-> <<row>>]
    /\ UNCHANGED <<manifest_v2_index, manifest_v2_modules, queue, api_redis_client,
                   uuid_count, clock, api_pending, worker, hard_gates, log,
                   foreign_sent>>

\* modules = await conn.fetch(...) and the return of the response, or the
\* 404 response going out
GetManifestReturn ==
    /\ reader.pc \in {"fetched", "not_found"}
    /\ reader' = NoRequest
    /\ UNCHANGED <<manifest_v2_index, manifest_v2_modules, queue, api_redis_client,
                   uuid_count, clock, api_pending, worker, hard_gates, log,
                   foreign_sent>>

\* one iteration step of a worker_loop instance
WorkerStep(w) ==
    \/ Brpop(w)
    \/ Loads(w)
    \/ UpdateProcessing(w)
    \/ Phase1(w)
    \/ Phase2(w)
    \/ Phase3(w)
    \/ Phase4(w)
    \/ InsertAudit(w)
    \/ InsertDecision(w)
    \/ InsertDeployment(w)
    \/ UpdateCompleted(w)
    \/ DbRaise(w)
    \/ PhaseRaise(w)
    \/ UpdateFailed(w)
    \/ UpdateFailedRaise(w)
    \/ Backoff(w)

ProducerStep ==
    \/ \E t \in Tenants, s \in Stores : RunPipelineInsert(t, s)
    \/ \E req \in api_pending : RunPipelineEnqueue(req)
    \/ \E req \in api_pending : RunPipelineEnqueueRaise(req)

\* the deployment of spec 4.5 with a single consumer
SingleWorker == {"w1"}

\* producer, one worker loop and one reader
NextReader ==
    \/ ProducerStep
    \/ \E w \in SingleWorker : WorkerStep(w)
    \/ \E t \in Tenants, s \in Stores : GetManifestFetchRow(t, s)
    \/ GetManifestReturn

\* reads do not depend on the gate configuration: one configuration is enough
InitReader == Init /\ hard_gates = {}

SpecReader == InitReader /\ [][NextReader]_vars

\* ============================================================== the claims
Terminal == {"completed", "failed"}
AllModules == {"audit", "decision", "deployment"}

\* listModules(run_id): the module rows of a run, and their names
listModules(r) == {m \in manifest_v2_modules : m.run_id = r}
ModuleNames(r) == {m.module_name : m \in listModules(r)}
\* the decoded module_data of the run's module called name
ModuleData(r, name) ==
    json_loads((CHOOSE m \in listModules(r) : m.module_name = name).module_data)

\* the statuses the Run Index holds for a run id (empty: no row)
StatusOf(tbl, r) == {row.status : row \in {x \in tbl : x.run_id = r}}

Logged(ev, r) == \E x \in log : x.event = ev /\ x.run_id = r
\* a worker holds the run's message or is inside process_pipeline_job for it
Held(r) ==
    \E w \in Workers :
        \/ worker[w].run_id = r
        \/ /\ worker[w].pc = "loads"
           /\ Decodable(worker[w].job_json)
           /\ HasKey(json_loads(worker[w].job_json), "run_id")
           /\ Get(json_loads(worker[w].job_json), "run_id") = r
\* process_pipeline_job was entered for the run and has returned or raised
Finished(r) == Logged("pipeline_start", r) /\ ~Held(r)

\* C1: every run whose Run Index status is completed has exactly the module
\* rows audit, decision and deployment, one of each, and from then on its
\* module rows never change: whoever reads the modules after having seen
\* completed finds all three.
C1_CompletedHasAllModules ==
    /\ [](\A row \in manifest_v2_index :
            row.status = "completed" =>
                /\ ModuleNames(row.run_id) = AllModules
                /\ Cardinality(listModules(row.run_id)) = 3)
    /\ [][\A row \in manifest_v2_index :
            row.status = "completed" =>
                {m \in manifest_v2_modules' : m.run_id = row.run_id} = listModules(row.run_id)]_vars

C1_Witness ==
    \E row \in manifest_v2_index :
        row.status = "completed" /\ ModuleNames(row.run_id) = AllModules

\* C2: every run whose Run Index status is failed has no module row and a
\* null deploy_ready, wherever in process_pipeline_job the exception was raised.
C2_FailedHasNoModules ==
    \A row \in manifest_v2_index :
        row.status = "failed" =>
            /\ listModules(row.run_id) = {}
            /\ row.deploy_ready = NULL

C4_OrderedTransitions ==
    [][\A r \in RunIds :
          LET old == StatusOf(manifest_v2_index, r)
              new == StatusOf(manifest_v2_index', r)
          IN (old /= {} /\ new /= old) =>
                \/ old = {"queued"} /\ new = {"processing"}
                \/ old = {"processing"} /\ new = {"completed"}
                \/ old = {"processing"} /\ new = {"failed"}]_vars

\* the run id a message carries
MessageRunId(m) == Get(json_loads(m), "run_id")

\* C5: every message in the queue or held by a worker carries a run id that
\* has a row in the Run Index.
C5_RowBeforeMessage ==
    /\ \A i \in 1..Len(queue) : StatusOf(manifest_v2_index, MessageRunId(queue[i])) /= {}
    /\ \A w \in Workers :
          /\ worker[w].job_json /= <<>> =>
                StatusOf(manifest_v2_index, MessageRunId(worker[w].job_json)) /= {}
          /\ worker[w].run_id /= "" => StatusOf(manifest_v2_index, worker[w].run_id) /= {}

C5_Witness ==
    /\ queue /= <<>>
    /\ \E w \in Workers : worker[w].run_id /= ""

\* C6: when a hard gate fails with reason R, a completed run has
\* deploy_ready = false in the Run Index and R among the decision module's reasons.
C6_GateFailureRecorded ==
    \A row \in manifest_v2_index :
        (row.status = "completed" /\ hard_gates /= {}) =>
            /\ row.deploy_ready = Val(FALSE)
            /\ Get(ModuleData(row.run_id, "decision"), "deploy_ready") = FALSE
            /\ \A g \in hard_gates :
                  \E i \in 1..Len(Get(ModuleData(row.run_id, "decision"), "reasons")) :
                      Get(ModuleData(row.run_id, "decision"), "reasons")[i] = g

\* the exception of the run's job was raised by phase 1
PrefetchRaised(r) == Event("pipeline_failed", r, "phase_1") \in log

\* C7: when phase 1 raises, no later phase runs, no module row is written,
\* and once the job is over the run's status is failed.
C7_PrefetchErrorFails ==
    \A row \in manifest_v2_index :
        PrefetchRaised(row.run_id) =>
            /\ listModules(row.run_id) = {}
            /\ ~Logged("phase_2_hard_block", row.run_id)
            /\ ~Logged("phase_5_manifest", row.run_id)
            /\ Finished(row.run_id) => row.status = "failed"

\* C8: with no hard gate configured and no step raising, a run whose job is
\* over is completed with deploy_ready = true and an empty reasons list.
C8_NoGateDefault ==
    \A row \in manifest_v2_index :
        (hard_gates = {} /\ Finished(row.run_id) /\ ~Logged("pipeline_failed", row.run_id)) =>
            /\ row.status = "completed"
            /\ row.deploy_ready = Val(TRUE)
            /\ Get(ModuleData(row.run_id, "decision"), "deploy_ready") = TRUE
            /\ Get(ModuleData(row.run_id, "decision"), "reasons") = <<>>

C8_Witness ==
    /\ hard_gates = {}
    /\ \E row \in manifest_v2_index :
          /\ Finished(row.run_id)
          /\ ~Logged("pipeline_failed", row.run_id)
          /\ row.deploy_ready = Val(TRUE)

C10_DeployPath ==
    \A row \in manifest_v2_index :
        row.status = "completed" =>
            Get(ModuleData(row.run_id, "deployment"), "ready_to_deploy_path")
                = "s3://aegis/" \o row.tenant_id \o "/" \o row.store_id \o "/" \o row.run_id

\* two completed runs of different stores
C10_Witness ==
    \E a, b \in manifest_v2_index :
        /\ a.status = "completed" /\ b.status = "completed"
        /\ a.store_id /= b.store_id
        /\ "deployment" \in ModuleNames(a.run_id) /\ "deployment" \in ModuleNames(b.run_id)
\* ------------------------------------------------- the status transition
\* The statement of worker.py:36-39 applied to tables whose rows carry the
\* updated_at column: for each run id no row, a queued row never updated, or
\* a row already processing.
TransitionRow(r, st) ==
    [tenant_id |-> "T1", store_id |-> "S1", run_id |-> r, status |-> st,
     deploy_ready |-> NULL, created_at |-> 1,
     updated_at |-> IF st = "queued" THEN NULL ELSE Val(1)]

TransitionTables ==
    {{TransitionRow(r, f[r]) : r \in {x \in RunIds : f[x] # "absent"}} :
        f \in [RunIds -> {"absent", "queued", "processing"}]}

InitTransition ==
    /\ manifest_v2_index \in TransitionTables
    /\ manifest_v2_modules = {}
    /\ queue = <<>>
    /\ api_redis_client = TRUE
    /\ uuid_count = MaxRuns
    /\ clock = 1
    /\ api_pending = {}
    /\ worker = [w \in Workers |-> Idle]
    /\ hard_gates = {}
    /\ log = {}
    /\ reader = NoRequest
    /\ foreign_sent = 0

\* logger.info("pipeline_start", run_id=run_id) and the UPDATE to processing;
\* the event's detail keeps the status the statement found
Transition(r) ==
    /\ manifest_v2_index' = UpdateStatus(manifest_v2_index, r, "processing", clock)
    /\ log' = log \cup {Event("pipeline_start", r,
                               IF StatusOf(manifest_v2_index, r) = {} THEN "absent"
                               ELSE CHOOSE st \in StatusOf(manifest_v2_index, r) : TRUE)}
    /\ UNCHANGED <<manifest_v2_modules, queue, api_redis_client, uuid_count, clock,
                   api_pending, worker, hard_gates, reader, foreign_sent>>

\* time passes
Tick ==
    /\ clock < MaxClock
    /\ clock' = clock + 1
    /\ UNCHANGED <<manifest_v2_index, manifest_v2_modules, queue, api_redis_client,
                   uuid_count, api_pending, worker, hard_gates, reader, log, foreign_sent>>

NextTransition ==
    \/ \E r \in RunIds : Transition(r)
    \/ Tick

SpecTransition == InitTransition /\ [][NextTransition]_vars

\* ------------------------------------------- messages of foreign origin
\* The Redis list is shared infrastructure: worker_loop takes whatever text
\* it finds there.  A run id uuid4 never hands out, and three messages
\* run_pipeline does not write: well formed with that run id, cut short, and
\* without the run_id key.
AbsentRunId == "R0"
AbsentRunMessage ==
    json_dumps(<< <<"run_id", AbsentRunId>>, <<"tenant_id", "T1">>,
                  <<"store_id", "S1">>, <<"product_data", "P">> >>)
PoisonMessages ==
    {<<"{", "run_id">>,
     json_dumps(<< <<"tenant_id", "T1">>, <<"store_id", "S1">> >>)}
ForeignMessages == {AbsentRunMessage} \cup PoisonMessages

\* some other client of the Redis server pushes a message on the list
ForeignPush(m) ==
    /\ foreign_sent < MaxForeign
    /\ queue' = lpush(queue, m)
    /\ foreign_sent' = foreign_sent + 1
    /\ UNCHANGED <<manifest_v2_index, manifest_v2_modules, api_redis_client,
                   uuid_count, clock, api_pending, worker, hard_gates, reader, log>>

\* producer, one worker loop, and the list written to by others as well
NextForeign ==
    \/ ProducerStep
    \/ \E w \in SingleWorker : WorkerStep(w)
    \/ \E m \in ForeignMessages : ForeignPush(m)

\* the producer has its Redis client; gate configuration plays no part
InitForeign == Init /\ hard_gates = {} /\ api_redis_client

SpecForeign == InitForeign /\ [][NextForeign]_vars

\* one worker loop and the messages it finds on the list, whoever wrote them
NextLoop ==
    \/ \E w \in SingleWorker : WorkerStep(w)
    \/ \E m \in ForeignMessages : ForeignPush(m)

\* worker_loop is an asyncio task the event loop keeps scheduling: a step of
\* the loop that stays possible is taken
SpecLoop ==
    /\ InitForeign
    /\ [][NextLoop]_vars
    /\ \A w \in SingleWorker : WF_vars(WorkerStep(w))

\* ------------------------------------------------------ order of service
\* a client that sends its next request when the previous one is answered
SequentialRequest(t, s) ==
    /\ api_pending = {}
    /\ RunPipelineInsert(t, s)

\* requests sent one after another, every lpush succeeding, one worker loop:
\* messages are enqueued in the order of the run numbers
NextFifo ==
    \/ \E t \in Tenants, s \in Stores : SequentialRequest(t, s)
    \/ \E req \in api_pending : RunPipelineEnqueue(req)
    \/ \E w \in SingleWorker : WorkerStep(w)

SpecFifo == InitForeign /\ [][NextFifo]_vars

\* ---------------------------------------------------------- worker crash
\* the worker process dies (kill, out of memory, host loss): its loop takes
\* no further step; nothing in src/ restarts it or requeues what it held
Crash(w) ==
    /\ worker[w].pc # "crashed"
    /\ worker' = [worker EXCEPT ![w].pc = "crashed"]
    /\ UNCHANGED <<manifest_v2_index, manifest_v2_modules, queue, api_redis_client,
                   uuid_count, clock, api_pending, hard_gates, reader, foreign_sent, log>>

NextCrash ==
    \/ ProducerStep
    \/ \E w \in Workers : WorkerStep(w)
    \/ \E w \in Workers : Crash(w)

SpecCrash == InitForeign /\ [][NextCrash]_vars

\* --------------------------------------------------------------- progress
\* Workers that never crash and are scheduled fairly: a step of a worker
\* loop that stays possible is taken, and a request past its INSERT goes on
\* to its lpush.  Which statements raise is left open.
SpecLive ==
    /\ Init
    /\ [][Next]_vars
    /\ \A w \in Workers : WF_vars(WorkerStep(w))
    /\ WF_vars(\E req \in api_pending : RunPipelineEnqueue(req))

\* position of a run id in the order of creation (uuid4 values are drawn in
\* the order of the INSERTs)
RunNo(r) == CHOOSE i \in 1..MaxRuns : RunId(i) = r

RowsOfPair(t, s) == {row \in manifest_v2_index : row.tenant_id = t /\ row.store_id = s}

\* C11: the latest-manifest query for a (tenant, store) pair fetches the row
\* of the run created last for that pair (never an earlier run, never a run
\* of another pair), the response carries that row's run id, status and
\* deploy_ready, and the query answers not-found when the pair has no run.
C11_LatestOfPair ==
    [][reader.pc = "idle" /\ reader'.pc # "idle" =>
         LET rows == RowsOfPair(reader'.tenant_id, reader'.store_id)
         IN IF rows = {}
            THEN reader'.pc = "not_found"
            ELSE /\ reader'.pc = "fetched"
                 /\ reader'.row[1] \in rows
                 /\ \A o \in rows : RunNo(o.run_id) <= RunNo(reader'.row[1].run_id)
                 /\ LET resp == ManifestResponse(reader'.row[1], manifest_v2_modules)
                    IN \E row \in rows :
                          /\ \A o \in rows : RunNo(o.run_id) <= RunNo(row.run_id)
                          /\ resp.run_id = row.run_id
                          /\ resp.status = row.status
                          /\ resp.deploy_ready = row.deploy_ready]_vars

\* a pair with two runs, and the later one fetched
C11_Witness ==
    /\ reader.pc = "fetched"
    /\ \E o \in RowsOfPair(reader.tenant_id, reader.store_id) :
          RunNo(o.run_id) < RunNo(reader.row[1].run_id)
\* C12: a Job Message whose run id is absent from the Run Index is dropped:
\* the worker that holds it executes no phase and writes no module row, so
\* no module row exists for a run id without a Run Index row, and no phase
\* event is logged for such a run id.
C12_AbsentRunDropped ==
    LET known == {row.run_id : row \in manifest_v2_index} IN
    /\ \A w \in Workers :
          worker[w].run_id # "" /\ worker[w].run_id \notin known
             => worker[w].pc \notin PhaseSteps \cup (DbSteps \ {"update_processing"})
    /\ \A m \in manifest_v2_modules : m.run_id \in known
    /\ \A e \in log :
          e.event \in {"phase_1_prefetch", "phase_2_hard_block", "phase_3_assets",
                       "phase_4_soft_checks", "phase_5_manifest"} => e.run_id \in known

\* C13: the worker loop never exits on a job's failure: from the except
\* clause of process_pipeline_job and from the except clause of worker_loop
\* (reached by an undecodable or incomplete message and by an exception of
\* the write of 'failed') the loop comes back to brpop, and a message that
\* waits in the list at that time is dequeued.
C13_LoopGoesOn ==
    \A w \in SingleWorker :
        /\ (worker[w].pc \in {"update_failed", "backoff"}) ~> (worker[w].pc = "brpop")
        /\ (worker[w].pc \in {"update_failed", "backoff"} /\ queue # <<>>)
               ~> (worker[w].pc = "loads")

\* after worker_loop's except clause ran (a message that could not be read,
\* or a write of 'failed' that raised), the loop is in phase 1 of the job
\* that followed
C13_Witness ==
    /\ \E e \in log : e.event = "worker_error"
    /\ \E w \in SingleWorker : worker[w].pc = "phase_1"
\* C14: the transition to processing is idempotent: applied to a table, it
\* leaves every row that is already processing as it was in every column but
\* updated_at (status still processing), creates and deletes no row, and is
\* defined on every table (no error).
C14_ProcessingIdempotent ==
    [][clock' = clock =>
         /\ \A row \in manifest_v2_index :
               row.status = "processing" =>
                  \E n \in manifest_v2_index' :
                     /\ n = [row EXCEPT !.updated_at = n.updated_at]
                     /\ n.status = "processing"
         /\ {row.run_id : row \in manifest_v2_index'} = {row.run_id : row \in manifest_v2_index}
         /\ Cardinality(manifest_v2_index') = Cardinality(manifest_v2_index)]_vars

\* the statement found a row processing and wrote a later timestamp on it
C14_Witness ==
    \E row \in manifest_v2_index :
        /\ Event("pipeline_start", row.run_id, "processing") \in log
        /\ row.status = "processing"
        /\ "updated_at" \in DOMAIN row
        /\ row.updated_at = Val(3)
\* C15: the queue is FIFO: the list changes only by a message added at its
\* left end or by a worker at brpop taking the message at its right end, the
\* one that has waited longest; so with one worker and messages enqueued in
\* the order of their run numbers, a run has entered processing only if
\* every run enqueued before it has entered processing before (or its UPDATE
\* to processing raised).
C15_Fifo ==
    /\ [](\A r1, r2 \in {row.run_id : row \in manifest_v2_index} :
            RunNo(r1) < RunNo(r2) /\ Logged("phase_1_prefetch", r2)
               => \/ Logged("phase_1_prefetch", r1)
                  \/ Event("pipeline_failed", r1, "update_processing") \in log)
    /\ [][queue' # queue =>
            \/ Len(queue') = Len(queue) + 1 /\ Tail(queue') = queue
            \/ /\ queue # <<>>
               /\ queue' = SubSeq(queue, 1, Len(queue) - 1)
               /\ \E w \in SingleWorker :
                     /\ worker[w].pc = "brpop"
                     /\ worker'[w].job_json = queue[Len(queue)]]_vars

\* the worker has taken the message of the first run while the message of
\* the second waits
C15_Witness ==
    /\ Len(queue) = 1
    /\ MessageRunId(queue[1]) = RunId(2)
    /\ \E w \in SingleWorker :
          worker[w].pc = "loads" /\ MessageRunId(worker[w].job_json) = RunId(1)
\* worker w holds the message of run r or is inside process_pipeline_job for it
HeldBy(w, r) ==
    \/ worker[w].run_id = r
    \/ /\ worker[w].pc = "loads"
       /\ Decodable(worker[w].job_json)
       /\ HasKey(json_loads(worker[w].job_json), "run_id")
       /\ Get(json_loads(worker[w].job_json), "run_id") = r

\* C16: with several worker loops on the same queue, a run's message exists
\* at most once (in the list or with one worker), so no run id is held by two
\* workers at the same time; and process_pipeline_job is started at most
\* once per run id: a worker about to start it finds it was never started,
\* and once it was started and left, no copy of the message remains.
C16_OneWorkerPerRun ==
    \A r \in RunIds :
        LET inList == {i \in 1..Len(queue) : MessageRunId(queue[i]) = r}
            holders == {w \in Workers : HeldBy(w, r)}
        IN /\ Cardinality(inList) + Cardinality(holders) <= 1
           /\ \A w \in holders : worker[w].pc = "loads" => ~Logged("pipeline_start", r)
           /\ inList # {} => ~Logged("pipeline_start", r)
           /\ Finished(r) => inList = {}

\* two workers inside process_pipeline_job at the same time, for two runs
C16_Witness ==
    \E w1, w2 \in Workers :
        /\ w1 # w2
        /\ worker[w1].pc \in PhaseSteps /\ worker[w1].run_id = RunId(1)
        /\ worker[w2].pc \in PhaseSteps /\ worker[w2].run_id = RunId(2)
\* worker w died with the message of run r dequeued and process_pipeline_job
\* for it not yet returned
CrashedHolding(w, r) ==
    /\ worker[w].pc = "crashed"
    /\ \/ worker[w].run_id = r
       \/ /\ worker[w].run_id = ""
          /\ Decodable(worker[w].job_json)
          /\ HasKey(json_loads(worker[w].job_json), "run_id")
          /\ Get(json_loads(worker[w].job_json), "run_id") = r

NotRedelivered(w, r) ==
    /\ \A i \in 1..Len(queue) : MessageRunId(queue[i]) # r
    /\ \A o \in Workers \ {w} : ~HeldBy(o, r) /\ ~CrashedHolding(o, r)

\* C17: when a worker has crashed after dequeuing a run's message and before
\* the run reached a terminal status, the message is neither in the list nor
\* with another worker, and the run's status is processing in every state
\* from then on.
C17_CrashLeavesProcessing ==
    \A w \in Workers, r \in RunIds :
        CrashedHolding(w, r) =>
            /\ NotRedelivered(w, r)
            /\ StatusOf(manifest_v2_index, r) = {"processing"}
\* the positions of process_pipeline_job's try block, in program order:
\* phases 1 to 4, then phase 5 (Manifest Build: the three INSERTs)
PhaseOrder == <<"update_processing", "phase_1", "phase_2", "phase_3", "phase_4",
                "insert_audit", "insert_decision", "insert_deployment",
                "update_completed">>
PhaseEvents == <<"phase_1_prefetch", "phase_2_hard_block", "phase_3_assets",
                 "phase_4_soft_checks", "phase_5_manifest">>

\* C18: for each run the phases Prefetch, Hard-Block Validation, Asset
\* Generation, Soft Checks, Manifest Build run one after the other in that
\* order (a phase is entered only from the one before it, for the same run,
\* and its event is logged only after the previous phase's), all while the
\* run's status is processing; a module row of the run exists only once
\* phase 4 has finished; and module rows are never modified or deleted.
C18_PhasesInOrder ==
    /\ [](\A w \in Workers :
            worker[w].pc \in {PhaseOrder[i] : i \in 2..Len(PhaseOrder)}
               => StatusOf(manifest_v2_index, worker[w].run_id) = {"processing"})
    /\ [](\A r \in RunIds :
            /\ \A k \in 2..Len(PhaseEvents) :
                  Logged(PhaseEvents[k], r) => Logged(PhaseEvents[k - 1], r)
            /\ listModules(r) # {} => Logged("phase_5_manifest", r))
    /\ [][/\ \A w \in Workers : \A i \in 2..Len(PhaseOrder) :
               worker'[w].pc = PhaseOrder[i] /\ worker[w].pc # PhaseOrder[i]
                  => /\ worker[w].pc = PhaseOrder[i - 1]
                     /\ worker'[w].run_id = worker[w].run_id
          /\ manifest_v2_modules \subseteq manifest_v2_modules'
          /\ \A m \in manifest_v2_modules' \ manifest_v2_modules :
                \A o \in manifest_v2_modules :
                   ~(o.run_id = m.run_id /\ o.module_name = m.module_name)]_vars

\* phase 5 under way: audit and decision written, the deployment row still
\* to come, the run processing
C18_Witness ==
    \E w \in Workers :
        /\ worker[w].pc = "insert_deployment"
        /\ ModuleNames(worker[w].run_id) = {"audit", "decision"}
        /\ StatusOf(manifest_v2_index, worker[w].run_id) = {"processing"}
\* C19: every run created by the pipeline-run endpoint eventually reaches a
\* terminal status, completed or failed, when the worker loops keep running
\* and are scheduled fairly: no run stays queued or processing forever.
C19_EveryRunTerminates ==
    \A r \in RunIds :
        [](StatusOf(manifest_v2_index, r) # {}
              => <>(StatusOf(manifest_v2_index, r) \subseteq Terminal))
\* C20: the response of the latest-manifest query is a consistent snapshot
\* of one run: its status, deploy_ready and modules are those the run had
\* together in one state between the two queries.  A run's row changes only
\* queued -> processing -> terminal and its modules only grow, all of them
\* while the row is processing, so a response built from a row read as
\* processing or terminal always matches such a state, and one built from a
\* row read as queued matches one exactly when it carries no modules.
C20_ConsistentSnapshot ==
    reader.pc = "fetched" =>
        LET resp == ManifestResponse(reader.row[1], manifest_v2_modules)
        IN resp.status = "queued" =>
              /\ resp.modules = {}
              /\ resp.deploy_ready = NULL
====
